---------------------------- MODULE Spec2Model ----------------------------
(***************************************************************************)
(* The Rigol DM3058 driver of pymeasure                                    *)
(* (src/pymeasure/instruments/rigol/dm3058.py): its table of properties,   *)
(* and the get/set dispatch of Instrument.control / Instrument.measurement *)
(* and the validators it is declared with.                                 *)
(*                                                                         *)
(* Python values are held as records [t, n, s]: a number (t = "num", n),   *)
(* a string (t = "str", s), a bool (t = "bool", n = 1 or 0) or None.       *)
(* TLA+ has no floats: the keys of a range table are held as integer       *)
(* multiples of a unit chosen per table (0.1 V, 0.1 mA, 1 Ohm, 1 nF), which*)
(* keeps their order and their equality.  The wire values are the source's *)
(* integers.                                                               *)
(***************************************************************************)
EXTENDS Integers, Sequences, FiniteSets, TLC

VARIABLES
    pc,          \* "new" | "ready" | "failed": the instrument's construction
    name,        \* the display name the instrument was constructed with
    adapterOpts, \* the options the adapter received at construction
    lastCall,    \* the last call made on the instrument, with the adapter
                 \* operations it issued (in order) and its outcome
    lastRange    \* the DC voltage range last selected (0: none yet)

vars == <<pc, name, adapterOpts, lastCall, lastRange>>

\* The largest numeral an adapter response carries in the model.
MaxNumeral == 7

-----------------------------------------------------------------------------
(* Python values *)

Num(n) == [t |-> "num", n |-> n, s |-> ""]
Str(s) == [t |-> "str", n |-> 0, s |-> s]
Bool(b) == [t |-> "bool", n |-> IF b THEN 1 ELSE 0, s |-> ""]
NoneVal == [t |-> "none", n |-> 0, s |-> ""]

\* Python's truth value of v ("X if v else Y", bool(v)).
Truthy(v) ==
    CASE v.t = "num" -> v.n /= 0
      [] v.t = "bool" -> v.n = 1
      [] v.t = "str" -> v.s /= ""
      [] OTHER -> FALSE

\* "%s" % v
PyStr(v) ==
    CASE v.t = "num" -> ToString(v.n)
      [] v.t = "bool" -> (IF v.n = 1 THEN "True" ELSE "False")
      [] v.t = "str" -> v.s
      [] OTHER -> "None"

\* str.lower() on the response tokens of the model.
LowerTable ==
    ("TRUE" :> "true") @@ ("FALSE" :> "false") @@ ("ON" :> "on") @@
    ("OFF" :> "off") @@ ("XYZ" :> "xyz")

Lower(s) == IF s \in DOMAIN LowerTable THEN LowerTable[s] ELSE s

Ok(v) == [kind |-> "ok", value |-> v]
Raise(e) == [kind |-> e, value |-> NoneVal]

\* A command template is the sequence of its pieces, "%s" being the
\* placeholder; None is the empty sequence.
None == << >>

RECURSIVE Join(_)
Join(pieces) ==
    IF pieces = << >> THEN "" ELSE Head(pieces) \o Join(Tail(pieces))

\* command % arg
Format(command, arg) ==
    Join([i \in 1..Len(command) |->
             IF command[i] = "%s" THEN arg ELSE command[i]])


-----------------------------------------------------------------------------
(* pymeasure.instruments.validators *)

\* The members of a list, or the keys of a dict, as iteration yields them.
Members(values) ==
    IF DOMAIN values = 1..Cardinality(DOMAIN values)
    THEN {values[i] : i \in DOMAIN values}
    ELSE DOMAIN values

strict_discrete_set(value, values) ==
    IF value \in Members(values) THEN Ok(value) ELSE Raise("InvalidValueError")

strict_range(value, values) ==
    IF values[1] <= value.n /\ value.n <= values[2]
    THEN Ok(value)
    ELSE Raise("InvalidValueError")

truncated_range(value, values) ==
    IF value.n < values[1] THEN Ok(Num(values[1]))
    ELSE IF value.n > values[2] THEN Ok(Num(values[2]))
    ELSE Ok(value)

\* The numbers of set S in increasing order.
RECURSIVE Sorted(_)
Sorted(S) ==
    IF S = {} THEN << >>
    ELSE LET m == CHOOSE x \in S : \A y \in S : x <= y
         IN <<m>> \o Sorted(S \ {m})

\* The first element of the sorted sequence that is >= n; the last one when
\* there is none.
RECURSIVE FirstNotBelow(_, _)
FirstNotBelow(n, sorted) ==
    IF Len(sorted) = 1 \/ n <= Head(sorted)
    THEN Head(sorted)
    ELSE FirstNotBelow(n, Tail(sorted))

truncated_discrete_set(value, values) ==
    Ok(Num(FirstNotBelow(value.n, Sorted(Members(values)))))

Validate(validator, value, values) ==
    CASE validator = "strict_discrete_set" -> strict_discrete_set(value, values)
      [] validator = "truncated_discrete_set" ->
             truncated_discrete_set(value, values)
      [] validator = "strict_range" -> strict_range(value, values)
      [] validator = "truncated_range" -> truncated_range(value, values)
      [] OTHER -> Ok(value)

-----------------------------------------------------------------------------
(* Instrument.control and Instrument.measurement: the declaration of a     *)
(* property.  A get_process or set_process is named by the property that   *)
(* declares it ("None": not given).                                        *)

control(get_command, set_command, validator, values, map_values, get_process, set_process) ==
    [get_command |-> get_command, set_command |-> set_command,
     validator |-> validator, values |-> values, map_values |-> map_values,
     get_process |-> get_process, set_process |-> set_process]

measurement(get_command, get_process) ==
    control(get_command, None, "None", << >>, FALSE, get_process, "None")

-----------------------------------------------------------------------------
(* class DM3058(Instrument): the lambdas of its declarations *)

function_get_table ==
    ("DCV" :> "voltage") @@ ("ACV" :> "voltage ac") @@
    ("DCI" :> "current") @@ ("ACI" :> "current ac") @@
    ("2WR" :> "resistance") @@ ("4WR" :> "resistance 4W") @@
    ("CAP" :> "capacitance") @@ ("CONT" :> "continuity") @@
    ("DIODE" :> "diode") @@ ("FREQ" :> "frequency") @@ ("PERI" :> "period")

function_get_process(v) ==
    IF v.t = "str" /\ v.s \in DOMAIN function_get_table
    THEN Ok(Str(function_get_table[v.s]))
    ELSE Raise("KeyError")

\* A faulty variant of set_process: the entry of 'continuity' is missing.
function_set_table_incomplete ==
    ("voltage" :> "VOLT:DC") @@ ("voltage ac" :> "VOLT:AC") @@
    ("current" :> "CURR:DC") @@ ("current ac" :> "CURR:AC") @@
    ("resistance" :> "RES") @@ ("resistance 4W" :> "FRES") @@
    ("capacitance" :> "CAP") @@
    ("diode" :> "DIOD") @@ ("frequency" :> "FREQ") @@ ("period" :> "PER")

function_set_table ==
    ("voltage" :> "VOLT:DC") @@ ("voltage ac" :> "VOLT:AC") @@
    ("current" :> "CURR:DC") @@ ("current ac" :> "CURR:AC") @@
    ("resistance" :> "RES") @@ ("resistance 4W" :> "FRES") @@
    ("capacitance" :> "CAP") @@ ("continuity" :> "CONT") @@
    ("diode" :> "DIOD") @@ ("frequency" :> "FREQ") @@ ("period" :> "PER")

function_set_process(v) ==
    IF v.t = "str" /\ v.s \in DOMAIN function_set_table
    THEN Ok(Str(function_set_table[v.s]))
    ELSE Raise("KeyError")

\* lambda v: bool(v.lower()); a number has no lower().
measurement_available_get_process(v) ==
    IF v.t = "str" THEN Ok(Bool(Truthy(Str(Lower(v.s)))))
    ELSE Raise("AttributeError")

measurement_auto_range_set_process(v) ==
    Ok(Str(IF Truthy(v) THEN "AUTO" ELSE "MANU"))

voltage_filter_set_process(v) == Ok(Str(IF Truthy(v) THEN "ON" ELSE "OFF"))

voltage_filter_get_process(v) == Ok(Bool(v = Str("ON")))

current_filter_set_process(v) == Ok(Str(IF Truthy(v) THEN "ON" ELSE "OFF"))

current_filter_get_process(v) == Ok(Bool(v = Str("ON")))

\* The get_process named tag, applied to v ("None": the value unchanged).
ApplyGetProcess(tag, v) ==
    CASE tag = "function" -> function_get_process(v)
      [] tag = "measurement_available" -> measurement_available_get_process(v)
      [] tag = "voltage_filter" -> voltage_filter_get_process(v)
      [] tag = "current_filter" -> current_filter_get_process(v)
      [] OTHER -> Ok(v)

ApplySetProcess(tag, v) ==
    CASE tag = "function" -> function_set_process(v)
      [] tag = "measurement_auto_range" -> measurement_auto_range_set_process(v)
      [] tag = "voltage_filter" -> voltage_filter_set_process(v)
      [] tag = "current_filter" -> current_filter_set_process(v)
      [] OTHER -> Ok(v)

-----------------------------------------------------------------------------
(* class DM3058(Instrument): its properties *)

function ==
    control(<<":FUNC?">>, <<":FUNC:", "%s">>, "strict_discrete_set",
            <<Str("voltage"), Str("voltage ac"), Str("current"),
              Str("current ac"), Str("resistance"), Str("resistance 4W"),
              Str("capacitance"), Str("continuity"), Str("diode"),
              Str("frequency"), Str("period")>>,
            FALSE, "function", "function")

\* The values the docstring of function lists.
function_doc ==
    {"current", "current ac", "voltage", "voltage ac", "resistance",
     "resistance 4W", "capacitance", "period", "frequency", "diode"}

measurement_available == measurement(<<":MEAS?">>, "measurement_available")

\* A faulty variant: declared with a get command.
measurement_auto_range_readable ==
    control(<<":MEAS?">>, <<":MEAS ", "%s">>, "None", << >>, FALSE,
            "None", "measurement_auto_range")

measurement_auto_range ==
    control(None, <<":MEAS ", "%s">>, "None", << >>, FALSE,
            "None", "measurement_auto_range")

voltage == measurement(<<":MEAS:VOLT:DC?">>, "None")

\* A faulty variant: map_values left out.
voltage_range_unmapped ==
    control(<<":MEAS:VOLT:DC:RANG?">>, <<":MEAS:VOLT:DC ", "%s">>,
            "truncated_discrete_set",
            (2 :> 0) @@ (20 :> 1) @@ (200 :> 2) @@ (2000 :> 3) @@ (10000 :> 4),
            FALSE, "None", "None")

\* keys in 0.1 V
voltage_range ==
    control(<<":MEAS:VOLT:DC:RANG?">>, <<":MEAS:VOLT:DC ", "%s">>,
            "truncated_discrete_set",
            (2 :> 0) @@ (20 :> 1) @@ (200 :> 2) @@ (2000 :> 3) @@ (10000 :> 4),
            TRUE, "None", "None")

voltage_impedance ==
    control(<<":MEAS:VOLT:DC:IMPE?">>, <<":MEAS:VOLT:DC:IMPE ", "%s">>,
            "strict_discrete_set", <<Str("10M"), Str("10G")>>,
            FALSE, "None", "None")

voltage_filter ==
    control(<<":MEAS:VOLT:DC:FILT?">>, <<":MEAS:VOLT:DC:FILT ", "%s">>,
            "None", << >>, FALSE, "voltage_filter", "voltage_filter")

voltage_ac == measurement(<<":MEAS:VOLT:AC?">>, "None")

\* keys in 0.1 V
voltage_ac_range ==
    control(<<":MEAS:VOLT:AC:RANG?">>, <<":MEAS:VOLT:AC ", "%s">>,
            "truncated_discrete_set",
            (2 :> 0) @@ (20 :> 1) @@ (200 :> 2) @@ (2000 :> 3) @@ (7500 :> 4),
            TRUE, "None", "None")

current == measurement(<<":MEAS:CURR:DC?">>, "None")

\* A faulty variant: two ranges share the wire value 3.
current_range_shared_wire ==
    control(<<":MEAS:CURR:DC:RANG?">>, <<":MEAS:CURR:DC ", "%s">>,
            "truncated_discrete_set",
            (2 :> 0) @@ (20 :> 1) @@ (200 :> 2) @@ (2000 :> 3) @@
            (20000 :> 3) @@ (100000 :> 5),
            TRUE, "None", "None")

\* keys in 0.1 mA
current_range ==
    control(<<":MEAS:CURR:DC:RANG?">>, <<":MEAS:CURR:DC ", "%s">>,
            "truncated_discrete_set",
            (2 :> 0) @@ (20 :> 1) @@ (200 :> 2) @@ (2000 :> 3) @@
            (20000 :> 4) @@ (100000 :> 5),
            TRUE, "None", "None")

current_filter ==
    control(<<":MEAS:CURR:DC:FILT?">>, <<":MEAS:CURR:DC:FILT ", "%s">>,
            "None", << >>, FALSE, "current_filter", "current_filter")

current_ac == measurement(<<":MEAS:CURR:AC?">>, "None")

\* keys in 0.1 mA
current_ac_range ==
    control(<<":MEAS:CURR:AC:RANG?">>, <<":MEAS:CURR:AC ", "%s">>,
            "truncated_discrete_set",
            (200 :> 0) @@ (2000 :> 1) @@ (20000 :> 2) @@ (100000 :> 3),
            TRUE, "None", "None")

resistance == measurement(<<":MEAS:RES?">>, "None")

\* keys in Ohm
resistance_range ==
    control(<<":MEAS:RES:RANG?">>, <<":MEAS:RES ", "%s">>,
            "truncated_discrete_set",
            (200 :> 0) @@ (2000 :> 1) @@ (20000 :> 2) @@ (200000 :> 3) @@
            (1000000 :> 4) @@ (10000000 :> 5) @@ (100000000 :> 6),
            TRUE, "None", "None")

resistance_4w == measurement(<<":MEAS:FRES?">>, "None")

\* keys in Ohm
resistance_4w_range ==
    control(<<":MEAS:FRES:RANG?">>, <<":MEAS:FRES ", "%s">>,
            "truncated_discrete_set",
            (200 :> 0) @@ (2000 :> 1) @@ (20000 :> 2) @@ (200000 :> 3) @@
            (1000000 :> 4) @@ (10000000 :> 5) @@ (100000000 :> 6),
            TRUE, "None", "None")

frequency == measurement(<<":MEAS:FREQ?">>, "None")

\* keys in 0.1 V
frequency_voltage_range ==
    control(<<":MEAS:FREQ:RANG?">>, <<":MEAS:FREQ ", "%s">>,
            "truncated_discrete_set",
            (2 :> 0) @@ (20 :> 1) @@ (200 :> 2) @@ (2000 :> 3) @@ (7500 :> 4),
            TRUE, "None", "None")

period == measurement(<<":MEAS:PER?">>, "None")

\* keys in 0.1 V
period_voltage_range ==
    control(<<":MEAS:PER:RANG?">>, <<":MEAS:PER ", "%s">>,
            "truncated_discrete_set",
            (2 :> 0) @@ (20 :> 1) @@ (200 :> 2) @@ (2000 :> 3) @@ (7500 :> 4),
            TRUE, "None", "None")

continuity == measurement(<<":MEAS:CONT?">>, "None")

\* A faulty variant: truncated_range (imported beside strict_range) in the
\* place of strict_range.
continuity_limit_truncated ==
    control(None, <<":MEAS:CONT ", "%s">>, "truncated_range", <<10, 2000>>,
            FALSE, "None", "None")

\* limits in Ohm
continuity_limit ==
    control(None, <<":MEAS:CONT ", "%s">>, "strict_range", <<10, 2000>>,
            FALSE, "None", "None")

diode == measurement(<<":MEAS:DIOD?">>, "None")

capacitance == measurement(<<":MEAS:CAP?">>, "None")

\* keys in nF
capacitance_range ==
    control(<<":MEAS:CAP:RANG?">>, <<":MEAS:CAP ", "%s">>,
            "truncated_discrete_set",
            (2 :> 0) @@ (20 :> 1) @@ (200 :> 2) @@ (2000 :> 3) @@
            (200000 :> 4) @@ (10000000 :> 5),
            TRUE, "None", "None")

\* The class's registry of properties, by attribute name.
Descriptor(p) ==
    CASE p = "function" -> function
      [] p = "measurement_available" -> measurement_available
      [] p = "measurement_auto_range" -> measurement_auto_range
      [] p = "voltage" -> voltage
      [] p = "voltage_range" -> voltage_range
      [] p = "voltage_impedance" -> voltage_impedance
      [] p = "voltage_filter" -> voltage_filter
      [] p = "voltage_ac" -> voltage_ac
      [] p = "voltage_ac_range" -> voltage_ac_range
      [] p = "current" -> current
      [] p = "current_range" -> current_range
      [] p = "current_filter" -> current_filter
      [] p = "current_ac" -> current_ac
      [] p = "current_ac_range" -> current_ac_range
      [] p = "resistance" -> resistance
      [] p = "resistance_range" -> resistance_range
      [] p = "resistance_4w" -> resistance_4w
      [] p = "resistance_4w_range" -> resistance_4w_range
      [] p = "frequency" -> frequency
      [] p = "frequency_voltage_range" -> frequency_voltage_range
      [] p = "period" -> period
      [] p = "period_voltage_range" -> period_voltage_range
      [] p = "continuity" -> continuity
      [] p = "continuity_limit" -> continuity_limit
      [] p = "diode" -> diode
      [] p = "capacitance" -> capacitance
      [] p = "capacitance_range" -> capacitance_range

Properties ==
    {"function", "measurement_available", "measurement_auto_range",
     "voltage", "voltage_range", "voltage_impedance", "voltage_filter",
     "voltage_ac", "voltage_ac_range", "current", "current_range",
     "current_filter", "current_ac", "current_ac_range", "resistance",
     "resistance_range", "resistance_4w", "resistance_4w_range", "frequency",
     "frequency_voltage_range", "period", "period_voltage_range",
     "continuity", "continuity_limit", "diode", "capacitance",
     "capacitance_range"}

-----------------------------------------------------------------------------
(* The adapter: what a call asks of it, in order *)

Write(command) == [op |-> "write", data |-> command]
Read == [op |-> "read", data |-> ""]

\* A response read as a scalar: a number when it is a numeral, else the
\* string itself.
Parse(response) ==
    IF \E n \in 0..MaxNumeral : ToString(n) = response
    THEN Num(CHOOSE n \in 0..MaxNumeral : ToString(n) = response)
    ELSE Str(response)

-----------------------------------------------------------------------------
(* The get and the set of a property (Instrument.control's fget and fset). *)
(* fail names the adapter operation that raises during the call, if any.   *)

\* values[k] of a map_values property.
MapValue(values, v) ==
    IF v.t = "num" /\ v.n \in DOMAIN values
    THEN Ok(Num(values[v.n]))
    ELSE Raise("KeyError")

\* The key of a wire value: the reverse table holds, for a wire value that
\* several keys share, the key declared last (the largest).
ReverseMapValue(values, w) ==
    LET keys == {k \in DOMAIN values : w.t = "num" /\ values[k] = w.n}
    IN IF keys = {} THEN Raise("KeyError")
       ELSE Ok(Num(CHOOSE k \in keys : \A j \in keys : j <= k))

GetResult(d, parsed) ==
    IF d.map_values THEN ReverseMapValue(d.values, parsed)
    ELSE IF d.get_process /= "None" THEN ApplyGetProcess(d.get_process, parsed)
    ELSE Ok(parsed)

\* A faulty variant: a read that fails is tried once more.
PropertyGet_retrying(p, response, fail) ==
    LET d == Descriptor(p)
        query == Format(d.get_command, "")
    IN IF d.get_command = None
       THEN [ops |-> << >>, arg |-> NoneVal, raised |-> "none",
             outcome |-> Raise("WriteOnlyError")]
       ELSE IF fail = "write"
       THEN [ops |-> <<Write(query)>>, arg |-> NoneVal, raised |-> "write",
             outcome |-> Raise("TransportError")]
       ELSE IF fail = "read"
       THEN [ops |-> <<Write(query), Read, Read>>, arg |-> Str(response),
             raised |-> "read", outcome |-> GetResult(d, Parse(response))]
       ELSE [ops |-> <<Write(query), Read>>, arg |-> Str(response),
             raised |-> "none", outcome |-> GetResult(d, Parse(response))]

PropertyGet(p, response, fail) ==
    LET d == Descriptor(p)
        query == Format(d.get_command, "")
    IN IF d.get_command = None
       THEN [ops |-> << >>, arg |-> NoneVal, raised |-> "none",
             outcome |-> Raise("WriteOnlyError")]
       ELSE IF fail = "write"
       THEN [ops |-> <<Write(query)>>, arg |-> NoneVal, raised |-> "write",
             outcome |-> Raise("TransportError")]
       ELSE IF fail = "read"
       THEN [ops |-> <<Write(query), Read>>, arg |-> NoneVal,
             raised |-> "read", outcome |-> Raise("TransportError")]
       ELSE [ops |-> <<Write(query), Read>>, arg |-> Str(response),
             raised |-> "none", outcome |-> GetResult(d, Parse(response))]

\* The value to format into the set command: validated, then mapped or
\* processed.
SetValue(d, value) ==
    LET valid == Validate(d.validator, value, d.values)
    IN IF valid.kind /= "ok" THEN valid
       ELSE IF d.map_values THEN MapValue(d.values, valid.value)
       ELSE IF d.set_process /= "None"
       THEN ApplySetProcess(d.set_process, valid.value)
       ELSE valid

PropertySet(p, value, fail) ==
    LET d == Descriptor(p)
        wire == SetValue(d, value)
        command == Format(d.set_command, PyStr(wire.value))
    IN IF d.set_command = None
       THEN [ops |-> << >>, arg |-> value, raised |-> "none",
             outcome |-> Raise("ReadOnlyError")]
       ELSE IF wire.kind /= "ok"
       THEN [ops |-> << >>, arg |-> value, raised |-> "none", outcome |-> wire]
       ELSE IF fail = "write"
       THEN [ops |-> <<Write(command)>>, arg |-> value, raised |-> "write",
             outcome |-> Raise("TransportError")]
       ELSE [ops |-> <<Write(command)>>, arg |-> value, raised |-> "none",
             outcome |-> Ok(NoneVal)]

-----------------------------------------------------------------------------
(* Construction *)

RecognizedOptions == {"timeout", "read_termination", "write_termination"}

\* Instrument.__init__(adapter, name, **kwargs); kwargs is a set of
\* <<key, value>> pairs.
Instrument_init(nm, kwargs) ==
    IF \A kv \in kwargs : kv[1] \in RecognizedOptions
    THEN [pc |-> "ready", name |-> nm, adapterOpts |-> kwargs,
          ops |-> << >>, raised |-> "none", outcome |-> Ok(NoneVal)]
    ELSE [pc |-> "failed", name |-> "", adapterOpts |-> {},
          ops |-> << >>, raised |-> "none",
          outcome |-> Raise("ConfigurationError")]

\* A faulty variant: the keyword arguments are not passed on.
DM3058_init_dropping_kwargs(nameArg, kwargs) ==
    Instrument_init(IF nameArg = << >> THEN "Rigol DM3058" ELSE nameArg[1], {})

\* DM3058.__init__(self, adapter, name="Rigol DM3058", **kwargs); nameArg is
\* << >> when the caller gives no name.
DM3058_init(nameArg, kwargs) ==
    Instrument_init(IF nameArg = << >> THEN "Rigol DM3058" ELSE nameArg[1],
                    kwargs)

-----------------------------------------------------------------------------
(* The calls a user makes and the responses an instrument gives *)

RangeProperties ==
    {"voltage_range", "voltage_ac_range", "current_range", "current_ac_range",
     "resistance_range", "resistance_4w_range", "frequency_voltage_range",
     "period_voltage_range", "capacitance_range"}

Filters == {"voltage_filter", "current_filter"}

Numerals == {ToString(n) : n \in 0..MaxNumeral}

\* The numbers a range is set to: each key, the number just above it, a
\* number between the lowest keys and a negative one.
Probes(keys) == keys \cup {k + 1 : k \in keys} \cup {15, -1}

SetInputs(p) ==
    CASE p \in RangeProperties ->
             {Num(n) : n \in Probes(DOMAIN Descriptor(p).values)}
      [] p = "function" ->
             {Str(x) : x \in DOMAIN function_set_table \cup function_doc
                               \cup {"volt", "VOLT:DC", "DCV", ""}}
      [] p = "voltage_impedance" ->
             {Str("10M"), Str("10G"), Str("1M"), Str("10g")}
      [] p = "continuity_limit" ->
             {Num(n) : n \in {-1, 0, 9, 10, 11, 1000, 1999, 2000, 2001}}
      [] p \in Filters \cup {"measurement_auto_range"} ->
             {Bool(TRUE), Bool(FALSE), Num(0), Num(1)}
      [] OTHER -> {Num(1)}

Responses(p) ==
    CASE p \in RangeProperties -> Numerals \cup {"XYZ"}
      [] p = "function" -> DOMAIN function_get_table \cup {"XYZ", "1"}
      [] p = "measurement_available" -> {"TRUE", "FALSE", "1", "0", "", "XYZ"}
      [] p \in Filters -> {"ON", "OFF", "1", "0"}
      [] p = "voltage_impedance" -> {"10M", "10G"}
      [] OTHER -> {"0", "1", "XYZ"}

NameArgs == {<< >>, <<"bench DMM">>, <<"DM3058 #2">>}

OptionPairs ==
    {<<"timeout", "1000">>, <<"timeout", "2000">>, <<"timeout", "5000">>,
     <<"read_termination", "LF">>, <<"read_termination", "CRLF">>,
     <<"write_termination", "LF">>, <<"write_termination", "CRLF">>,
     <<"bogus", "1">>}

\* Keyword arguments: at most one value per key.
Kwargs ==
    {kw \in SUBSET OptionPairs :
        \A a \in kw, b \in kw : a[1] = b[1] => a = b}

\* A call on the instrument: the property (or "__init__"), the direction,
\* the argument (the value set, the response read, the name given), the
\* keyword arguments, the adapter operations issued in order, the adapter
\* operation that raised ("none": none did) and the outcome.
Call(prop, dir, arg, kwargs, r) ==
    [prop |-> prop, dir |-> dir, arg |-> arg, kwargs |-> kwargs,
     ops |-> r.ops, raised |-> r.raised, outcome |-> r.outcome]

NoCall ==
    Call("", "none", NoneVal, {},
         [ops |-> << >>, raised |-> "none", outcome |-> Ok(NoneVal)])

-----------------------------------------------------------------------------
(* The state machine *)

\* Before DM3058(...) is called.
InitNew ==
    /\ pc = "new"
    /\ name = ""
    /\ adapterOpts = {}
    /\ lastCall = NoCall
    /\ lastRange = 0

\* After DM3058(adapter): the default name, no options.
Init ==
    LET r == DM3058_init(<< >>, {})
    IN /\ pc = r.pc
       /\ name = r.name
       /\ adapterOpts = r.adapterOpts
       /\ lastCall = Call("__init__", "init", NoneVal, {}, r)
       /\ lastRange = 0

Construct ==
    /\ pc = "new"
    /\ \E nameArg \in NameArgs, kwargs \in Kwargs :
          LET r == DM3058_init(nameArg, kwargs)
              given == IF nameArg = << >> THEN NoneVal ELSE Str(nameArg[1])
          IN /\ pc' = r.pc
             /\ name' = r.name
             /\ adapterOpts' = r.adapterOpts
             /\ lastCall' = Call("__init__", "init", given, kwargs, r)
    /\ UNCHANGED lastRange

Get(p) ==
    /\ pc = "ready"
    /\ \E fail \in {"none", "write", "read"} :
          \E response \in IF fail = "none" THEN Responses(p) ELSE {""} :
             LET r == PropertyGet(p, response, fail)
             IN lastCall' = Call(p, "get", r.arg, {}, r)
    /\ UNCHANGED <<pc, name, adapterOpts, lastRange>>

Set(p) ==
    /\ pc = "ready"
    /\ \E value \in SetInputs(p), fail \in {"none", "write"} :
          LET r == PropertySet(p, value, fail)
              d == Descriptor(p)
          IN /\ lastCall' = Call(p, "set", value, {}, r)
             /\ lastRange' =
                   IF p = "voltage_range" /\ r.outcome.kind = "ok"
                   THEN Validate(d.validator, value, d.values).value.n
                   ELSE lastRange
    /\ UNCHANGED <<pc, name, adapterOpts>>

Next ==
    \/ \E p \in Properties : Get(p)
    \/ \E p \in Properties : Set(p)

Spec == Init /\ [][Next]_vars

SpecNew == InitNew /\ [][Construct]_vars

-----------------------------------------------------------------------------
(* Properties *)

IsSet(p) == lastCall.dir = "set" /\ lastCall.prop = p
IsGet(p) == lastCall.dir = "get" /\ lastCall.prop = p

\* The key the auto-range selection is to pick for number v among keys.
Suitable(v, keys) ==
    IF \E k \in keys : k >= v
    THEN CHOOSE k \in keys : k >= v /\ \A j \in keys : j >= v => k <= j
    ELSE CHOOSE k \in keys : \A j \in keys : j <= k

\* C1: setting a range property (truncated_discrete_set, map_values=True,
\* mapping M) to a number v never raises a validation error and sends
\* exactly the set command with M[k] in its placeholder, k being the
\* smallest key >= v, or the largest key when v exceeds every key;
\* voltage_range = 1.5 sends ":MEAS:VOLT:DC 1".
C1_AutoRangeSendsMappedKey ==
    /\ \A p \in RangeProperties :
          IsSet(p) =>
             LET d == Descriptor(p)
                 k == Suitable(lastCall.arg.n, DOMAIN d.values)
             IN /\ d.validator = "truncated_discrete_set" /\ d.map_values
                /\ lastCall.outcome.kind \in {"ok", "TransportError"}
                /\ lastCall.ops =
                      <<Write(Format(d.set_command, ToString(d.values[k])))>>
    /\ (IsSet("voltage_range") /\ lastCall.arg = Num(15)) =>
          lastCall.ops = <<Write(":MEAS:VOLT:DC 1")>>
    /\ (IsSet("capacitance_range") /\ lastCall.arg = Num(10000001)) =>
          lastCall.ops = <<Write(":MEAS:CAP 5")>>

C1_Witness ==
    /\ IsSet("voltage_range")
    /\ lastCall.arg = Num(15)
    /\ lastCall.outcome = Ok(NoneVal)
    /\ lastCall.ops = <<Write(":MEAS:VOLT:DC 1")>>

\* C2: round trip of a map_values property with mapping M: setting it to a
\* key k sends M[k]; a get that follows and is answered M[k] returns k; M is
\* one-to-one; a get answered by something that is no value of M fails with
\* a lookup error.
C2_RoundTrip ==
    /\ [](\A p \in RangeProperties :
             LET d == Descriptor(p)
                 M == d.values
             IN /\ \A j \in DOMAIN M, k \in DOMAIN M : M[j] = M[k] => j = k
                /\ (IsSet(p) /\ lastCall.arg.n \in DOMAIN M) =>
                      lastCall.ops =
                         <<Write(Format(d.set_command,
                                        ToString(M[lastCall.arg.n])))>>
                /\ (IsGet(p) /\ lastCall.raised = "none"
                      /\ lastCall.arg.s \notin {ToString(M[k]) : k \in DOMAIN M})
                      => lastCall.outcome = Raise("KeyError"))
    /\ [][\A p \in RangeProperties :
             (/\ IsSet(p)
              /\ lastCall.outcome.kind = "ok"
              /\ lastCall.arg.n \in DOMAIN Descriptor(p).values
              /\ lastCall'.dir = "get"
              /\ lastCall'.prop = p
              /\ lastCall'.raised = "none"
              /\ lastCall.ops =
                    <<Write(Format(Descriptor(p).set_command, lastCall'.arg.s))>>)
             => lastCall'.outcome = Ok(lastCall.arg)]_vars

C2_Witness ==
    /\ IsGet("current_range")
    /\ lastCall.arg = Str("3")
    /\ lastCall.outcome = Ok(Num(2000))

\* The declared domains of the strictly validated properties.
InDomain(p, v) ==
    CASE p = "function" ->
             v.t = "str" /\ v.s \in
                {"voltage", "voltage ac", "current", "current ac",
                 "resistance", "resistance 4W", "capacitance", "continuity",
                 "diode", "frequency", "period"}
      [] p = "voltage_impedance" -> v.t = "str" /\ v.s \in {"10M", "10G"}
      [] p = "continuity_limit" -> v.t = "num" /\ 10 <= v.n /\ v.n <= 2000

\* C3: a set of function, voltage_impedance or continuity_limit with a value
\* outside the declared domain raises InvalidValueError and sends nothing;
\* with a value inside it (10 and 2000 included) it sends exactly one
\* command; the adapter only receives commands built from in-domain values.
C3_StrictValidationBeforeIO ==
    \A p \in {"function", "voltage_impedance", "continuity_limit"} :
       IsSet(p) =>
          /\ ~InDomain(p, lastCall.arg) =>
                /\ lastCall.outcome = Raise("InvalidValueError")
                /\ lastCall.ops = << >>
          /\ InDomain(p, lastCall.arg) =>
                /\ Len(lastCall.ops) = 1
                /\ lastCall.ops[1].op = "write"
                /\ p /= "function" =>
                      lastCall.ops[1].data =
                         Format(Descriptor(p).set_command, PyStr(lastCall.arg))

C3_Witness ==
    /\ IsSet("continuity_limit")
    /\ lastCall.arg = Num(2001)
    /\ lastCall.outcome = Raise("InvalidValueError")
    /\ lastCall.ops = << >>

\* C4: getting a property declared with get command None raises
\* WriteOnlyError, setting a property declared with Instrument.measurement
\* raises ReadOnlyError, and neither writes to nor reads from the adapter.
C4_DirectionErrorsLocal ==
    /\ \A p \in {"measurement_auto_range", "continuity_limit"} :
          IsGet(p) =>
             lastCall.outcome = Raise("WriteOnlyError") /\ lastCall.ops = << >>
    /\ \A p \in {"voltage", "voltage_ac", "current", "current_ac",
                 "resistance", "resistance_4w", "frequency", "period",
                 "continuity", "diode", "capacitance",
                 "measurement_available"} :
          IsSet(p) =>
             lastCall.outcome = Raise("ReadOnlyError") /\ lastCall.ops = << >>

C4_Witness ==
    /\ IsGet("measurement_auto_range")
    /\ lastCall.outcome = Raise("WriteOnlyError")
    /\ lastCall.ops = << >>

\* C5: getting measurement_available sends ":MEAS?" and returns True when
\* the response reports new data and False when it reports none.
C5_AvailableFollowsResponse ==
    (IsGet("measurement_available") /\ lastCall.raised = "none") =>
       /\ lastCall.ops = <<Write(":MEAS?"), Read>>
       /\ lastCall.arg.s \in {"TRUE", "1"} => lastCall.outcome = Ok(Bool(TRUE))
       /\ lastCall.arg.s \in {"FALSE", "0"} =>
             lastCall.outcome = Ok(Bool(FALSE))

\* C6: ":MEAS:VOLT:DC:IMPE 10G" is sent only when the DC voltage range last
\* selected is 0.2 V or 2 V (keys 2 and 20 in 0.1 V).
C6_TenGigOnlyOnLowRanges ==
    (Write(":MEAS:VOLT:DC:IMPE 10G") \in {lastCall.ops[i] : i \in DOMAIN lastCall.ops}
       /\ lastRange /= 0)
       => lastRange \in {2, 20}

\* C7: setting function succeeds if and only if the value is one of the
\* values its documentation lists; every other value is rejected with
\* InvalidValueError.
C7_FunctionTakesDocumentedValues ==
    IsSet("function") =>
       /\ lastCall.arg.s \in function_doc =>
             lastCall.outcome.kind /= "InvalidValueError"
       /\ lastCall.arg.s \notin function_doc =>
             lastCall.outcome = Raise("InvalidValueError")

\* C8: constructing a DM3058 with an unrecognized option key raises
\* ConfigurationError before any adapter I/O; recognized options reach the
\* adapter unchanged, and the display name defaults to "Rigol DM3058".
C8_Construction ==
    lastCall.dir = "init" =>
       LET unrecognized ==
              \E kv \in lastCall.kwargs :
                 kv[1] \notin {"timeout", "read_termination", "write_termination"}
       IN /\ lastCall.ops = << >>
          /\ unrecognized =>
                /\ lastCall.outcome = Raise("ConfigurationError")
                /\ pc = "failed"
                /\ adapterOpts = {}
          /\ ~unrecognized =>
                /\ lastCall.outcome = Ok(NoneVal)
                /\ pc = "ready"
                /\ adapterOpts = lastCall.kwargs
                /\ name = IF lastCall.arg = NoneVal THEN "Rigol DM3058"
                          ELSE lastCall.arg.s

C8_Witness ==
    /\ lastCall.dir = "init"
    /\ <<"bogus", "1">> \in lastCall.kwargs
    /\ <<"timeout", "1000">> \in lastCall.kwargs
    /\ lastCall.outcome = Raise("ConfigurationError")
    /\ lastCall.ops = << >>

\* C9: a successful set causes exactly one write and no read; a successful
\* get exactly one write of the query followed by exactly one read; a call
\* on which the adapter fails is not retried: the adapter's error is the
\* outcome and no adapter operation follows the one that failed.
C9_OneRoundTripNoRetry ==
    /\ (lastCall.dir = "set" /\ lastCall.outcome.kind = "ok") =>
          /\ Len(lastCall.ops) = 1
          /\ lastCall.ops[1].op = "write"
    /\ (lastCall.dir = "get" /\ lastCall.outcome.kind = "ok") =>
          lastCall.ops =
             <<Write(Format(Descriptor(lastCall.prop).get_command, "")), Read>>
    /\ lastCall.raised /= "none" =>
          /\ lastCall.outcome = Raise("TransportError")
          /\ lastCall.ops[Len(lastCall.ops)].op = lastCall.raised
          /\ Len(lastCall.ops) = IF lastCall.raised = "write" THEN 1 ELSE 2
          /\ lastCall.ops[1].op = "write"
    /\ lastCall.outcome.kind = "TransportError" => lastCall.raised /= "none"

C9_Witness ==
    /\ IsGet("voltage_filter")
    /\ lastCall.raised = "read"
    /\ lastCall.outcome = Raise("TransportError")
    /\ lastCall.ops = <<Write(":MEAS:VOLT:DC:FILT?"), Read>>

\* C10: every value the validator of function accepts (its 11 values) has
\* an entry in set_process, so the set sends the single command ":FUNC:"
\* followed by that entry and never fails with a lookup error; distinct
\* accepted values send distinct commands; get_process maps its 11 device
\* tokens one-to-one onto exactly those 11 values.
C10_FunctionTablesConsistent ==
    LET accepted == {v.s : v \in Members(function.values)}
        tokens == {"DCV", "ACV", "DCI", "ACI", "2WR", "4WR", "CAP", "CONT",
                   "DIODE", "FREQ", "PERI"}
    IN /\ Cardinality(accepted) = 11
       /\ \A v \in accepted : function_set_process(Str(v)).kind = "ok"
       /\ \A v \in accepted, w \in accepted :
             function_set_process(Str(v)) = function_set_process(Str(w))
                => v = w
       /\ \A t \in tokens : function_get_process(Str(t)).kind = "ok"
       /\ \A t \in tokens, u \in tokens :
             function_get_process(Str(t)) = function_get_process(Str(u))
                => t = u
       /\ {function_get_process(Str(t)).value.s : t \in tokens} = accepted
       /\ (IsSet("function") /\ lastCall.arg.s \in accepted) =>
             /\ lastCall.outcome.kind \in {"ok", "TransportError"}
             /\ lastCall.ops =
                   <<Write(":FUNC:" \o function_set_process(lastCall.arg).value.s)>>
       /\ (IsSet("function") /\ lastCall.arg = Str("voltage")) =>
             lastCall.ops = <<Write(":FUNC:VOLT:DC")>>
       /\ (IsGet("function") /\ lastCall.outcome.kind = "ok") =>
             /\ lastCall.outcome.value.s \in accepted
             /\ lastCall.arg.s \in tokens

C10_Witness ==
    /\ IsSet("function")
    /\ lastCall.arg = Str("continuity")
    /\ lastCall.outcome = Ok(NoneVal)
    /\ lastCall.ops = <<Write(":FUNC:CONT")>>

=============================================================================
